---- MODULE Spec2Model ----
(***************************************************************************)
(* The Oxford-IIIT Pet sample pipeline of                                  *)
(* torchvision/prototype/datasets/_builtin/oxford_iiit_pet.py.             *)
(*                                                                         *)
(* A string is a sequence of tokens: "." , " " , "-" and the digits are    *)
(* tokens of their own, every other token is a run of characters holding   *)
(* none of them.  A path is a sequence of components, each a string.       *)
(* An archive entry is the tuple (path, buffer) of the resource loader.    *)
(* A value that may be None is <<>> for None and <<v>> for v.              *)
(***************************************************************************)
EXTENDS Integers, Sequences, FiniteSets, TLC

\* ------------------------------------------------------------ bounds
\* Lines in a classification-list file.
MaxLines == 2
\* Entries the annotation archive yields.
MaxAnns == 3
\* Entries the image archive yields.
MaxImages == 2
\* Times the pipeline is built and drained from the same archives.
MaxBuilds == 2

\* ------------------------------------------------------------ sequences
Range(s) == {s[i] : i \in 1..Len(s)}

\* The sequences of at most n elements of S.
RECURSIVE SeqsUpTo(_, _)
SeqsUpTo(S, n) ==
  IF n = 0 THEN {<<>>}
  ELSE {<<>>} \cup {<<x>> \o t : x \in S, t \in SeqsUpTo(S, n - 1)}

\* s with its i-th element removed.
RemoveAt(s, i) == SubSeq(s, 1, i - 1) \o SubSeq(s, i + 1, Len(s))

\* ------------------------------------------------------------ python strings
\* str.rfind("."): the last position of "." in s, 0 when there is none
\* (positions from 1).
RFindDot(s) ==
  LET D == {i \in 1..Len(s) : s[i] = "."}
  IN IF D = {} THEN 0 ELSE CHOOSE i \in D : \A j \in D : j <= i

\* str.startswith(".")
StartsWithDot(s) == Len(s) >= 1 /\ s[1] = "."

\* str.endswith(t)
EndsWith(s, t) == Len(s) >= Len(t) /\ SubSeq(s, Len(s) - Len(t) + 1, Len(s)) = t

\* str.split(" ") as csv's reader splits a line at the delimiter: the fields
\* between the delimiters, empty ones kept.
RECURSIVE SplitFields(_)
SplitFields(s) ==
  LET D == {i \in 1..Len(s) : s[i] = " "}
  IN IF D = {} THEN <<s>>
     ELSE LET i == CHOOSE k \in D : \A j \in D : k <= j
          IN <<SubSeq(s, 1, i - 1)>> \o SplitFields(SubSeq(s, i + 1, Len(s)))

Digits == <<"0", "1", "2", "3", "4", "5", "6", "7", "8", "9">>
DigitVal(d) == (CHOOSE i \in 1..10 : Digits[i] = d) - 1
IsDigits(s) == Len(s) >= 1 /\ \A i \in 1..Len(s) : s[i] \in Range(Digits)

\* Whether int(s) succeeds for a string s: an optional sign and then digits.
IsIntLiteral(s) ==
  IF Len(s) >= 1 /\ s[1] \in {"-", "+"} THEN IsDigits(Tail(s)) ELSE IsDigits(s)

RECURSIVE NatOf(_)
NatOf(s) == IF s = <<>> THEN 0 ELSE 10 * NatOf(SubSeq(s, 1, Len(s) - 1)) + DigitVal(s[Len(s)])

\* int(s) of an integer literal.
IntOf(s) ==
  IF s[1] = "-" THEN 0 - NatOf(Tail(s))
  ELSE IF s[1] = "+" THEN NatOf(Tail(s))
  ELSE NatOf(s)

\* ------------------------------------------------------------ pathlib
\* PurePath.name: the last component.
PathName(p) == p[Len(p)]

\* PurePath.parent.name: the last component but one, "" when there is none.
PathParentName(p) == IF Len(p) >= 2 THEN p[Len(p) - 1] ELSE <<>>

\* PurePath.suffix: from the last dot of the name, when that dot is neither the
\* first nor the last character of the name; "" otherwise.
PathSuffix(p) ==
  LET n == PathName(p)
      i == RFindDot(n)
  IN IF 1 < i /\ i < Len(n) THEN SubSeq(n, i, Len(n)) ELSE <<>>

\* PurePath.stem: the name without its suffix.
PathStem(p) ==
  LET n == PathName(p)
      i == RFindDot(n)
  IN IF 1 < i /\ i < Len(n) THEN SubSeq(n, 1, i - 1) ELSE n

\* ------------------------------------------------------------ the dataset
\* self.info.categories: the category table, index = label - 1.
Categories == <<"Abyssinian", "Bengal">>

\* list.__getitem__: whether categories[i] raises IndexError.
IndexInRange(i) == 0 - Len(Categories) <= i /\ i < Len(Categories)

\* list.__getitem__: categories[i]; a negative index counts from the end.
CategoryAt(i) == IF i >= 0 THEN Categories[i + 1] ELSE Categories[Len(Categories) + i + 1]

_classify_anns_swapped(data) ==
  LET parent == PathParentName(data[1])
  IN IF parent = <<"annotations">> THEN <<1>>
     ELSE IF parent = <<"trimaps">> THEN <<0>>
     ELSE <<>>

\* {"annotations": 0, "trimaps": 1}.get(parent name): <<0>>, <<1>> or <<>> (None).
_classify_anns(data) ==
  LET parent == PathParentName(data[1])
  IN IF parent = <<"annotations">> THEN <<0>>
     ELSE IF parent = <<"trimaps">> THEN <<1>>
     ELSE <<>>

_filter_images_upper(data) == PathSuffix(data[1]) = <<".", "JPG">>

_filter_images_endswith(data) == EndsWith(PathName(data[1]), <<"jpg">>)

_filter_images(data) == PathSuffix(data[1]) = <<".", "jpg">>

_filter_segmentations(data) == ~StartsWithDot(PathName(data[1]))

_filter_split_suffix(data, s) == PathSuffix(data[1]) = <<".", "txt">>

\* path_comparator("name", f"{config.split}.txt") for config.split = s.
_filter_split(data, s) == PathName(data[1]) = s \o <<".", "txt">>

\* getitem("image_id") and getitem(0, "image_id"): the key of the driving side.
key_fn(data) == data.image_id[1]

\* path_accessor("stem"): the key of the reference side.
ref_key_fn(data) == PathStem(data[1])

_decode_classification_data_no_offset(data) ==
  IF data.label = <<>> THEN [err |-> "TypeError", val |-> <<>>]
  ELSE IF ~IsIntLiteral(data.label[1]) THEN [err |-> "ValueError", val |-> <<>>]
  ELSE LET label_idx == IntOf(data.label[1])
       IN IF ~IndexInRange(label_idx) THEN [err |-> "IndexError", val |-> <<>>]
          ELSE [err |-> "",
                val |-> <<[label |-> [index |-> label_idx, category |-> CategoryAt(label_idx)],
                           species |-> IF data.species = << <<"1">> >> THEN "cat" ELSE "dog"]>>]

\* The decoded record in val, or the exception raised in err: int(None) is a
\* TypeError, int of another string than a literal a ValueError, an index
\* outside the table an IndexError.
_decode_classification_data(data) ==
  IF data.label = <<>> THEN [err |-> "TypeError", val |-> <<>>]
  ELSE IF ~IsIntLiteral(data.label[1]) THEN [err |-> "ValueError", val |-> <<>>]
  ELSE LET label_idx == IntOf(data.label[1]) - 1
       IN IF ~IndexInRange(label_idx) THEN [err |-> "IndexError", val |-> <<>>]
          ELSE [err |-> "",
                val |-> <<[label |-> [index |-> label_idx, category |-> CategoryAt(label_idx)],
                           species |-> IF data.species = << <<"1">> >> THEN "cat" ELSE "dog"]>>]

\* decoder(buffer) if decoder else buffer; the decoder is <<>> (None) or <<f>>.
ApplyDecoder(dec, buffer) == IF dec # <<>> THEN <<dec[1], buffer>> ELSE <<buffer>>

\* data is ((classification_data, segmentation_data), image_data).
_collate_and_decode_sample(data, dec) ==
  LET ann_data == data[1]
      image_data == data[2]
      classification_data == ann_data[1]
      segmentation_data == ann_data[2]
      decoded == _decode_classification_data(classification_data)
  IN IF decoded.err # "" THEN [err |-> decoded.err, val |-> <<>>]
     ELSE [err |-> "",
           val |-> <<[label |-> decoded.val[1].label,
                      species |-> decoded.val[1].species,
                      segmentation_path |-> segmentation_data[1],
                      segmentation |-> ApplyDecoder(dec, segmentation_data[2]),
                      image_path |-> image_data[1],
                      image |-> ApplyDecoder(dec, image_data[2])]>>]

\* ------------------------------------------------------------ torchdata stages
\* The field names CSVDictParser is given.
fieldnames == <<"image_id", "label", "species">>

\* row[i] of a csv row, None (restval) when the row is shorter.
FieldOrNone(row, i) == IF i <= Len(row) THEN <<row[i]>> ELSE <<>>

\* One line of a classification list read by CSVDictParser(fieldnames=("image_id",
\* "label", "species"), delimiter=" "), which is csv.DictReader: an empty line
\* is skipped (no record); the fields are paired with the field names, a
\* missing one is None, those beyond the names go under the key None.
CSVDictParser(line) ==
  IF line = <<>> THEN <<>>
  ELSE LET row == SplitFields(line)
       IN <<[image_id |-> FieldOrNone(row, 1),
             label |-> FieldOrNone(row, 2),
             species |-> FieldOrNone(row, 3),
             rest |-> SubSeq(row, Len(fieldnames) + 1, Len(row))]>>

hint_shuffling_shuffles(pending) == 1..Len(pending)

\* hint_shuffling: the positions of the pending records the next one may be
\* taken from.  A hint leaves the order alone: the first.
hint_shuffling(pending) == {1}

\* hint_sharding: whether this (only) worker keeps the record.
hint_sharding(record) == TRUE

\* The OrderedDict buffer of an IterKeyZipper, kept as the sequence of its
\* entries in the order they were put in.
BufferHas(buffer, key) == \E i \in 1..Len(buffer) : ref_key_fn(buffer[i]) = key
BufferIndex(buffer, key) == CHOOSE i \in 1..Len(buffer) : ref_key_fn(buffer[i]) = key
BufferGet(buffer, key) == buffer[BufferIndex(buffer, key)]
BufferPop(buffer, key) == RemoveAt(buffer, BufferIndex(buffer, key))

\* ------------------------------------------------------------ the archives
JoinFields(fs) ==
  LET F[i \in 1..Len(fs)] == IF i = 1 THEN fs[1] ELSE F[i - 1] \o <<" ">> \o fs[i]
  IN F[Len(fs)]

\* Lines a classification list may hold: image_id label species breed_id.
Lines ==
  {JoinFields(fs) : fs \in {
     << <<"a">>, <<"1">>, <<"1">>, <<"1">> >>,
     << <<"b">>, <<"2">>, <<"3">>, <<"1">> >>,
     << <<"a">>, <<"0">>, <<"2">>, <<"1">> >>,
     << <<"b">>, <<"3">>, <<"2">>, <<"1">> >>,
     << <<"a">>, <<"-", "2">>, <<"1">>, <<"1">> >>,
     << <<"b">>, <<"2">>, <<"2">> >>,
     << <<"b">>, <<"2">> >>,
     << <<"a">>, <<"1">>, <<"1">>, <<"1">>, <<"1">> >> }}

Splits == {<<"trainval">>, <<"test">>}

Decoders == {<<>>, <<"decoded">>}

\* The configurations the pipeline is built for.
Configs ==
  {<<s, d>> \in Splits \X Decoders : s = <<"trainval">> \/ d = <<>>}

ClassificationFile(s, content) ==
  << << <<"annotations">>, s \o <<".", "txt">> >>, content >>

\* The classification lists the archive may hold for split s.
Lists(s) ==
  IF s = <<"trainval">> THEN SeqsUpTo(Lines, MaxLines) ELSE SeqsUpTo(Lines, MaxLines - 1)

OtherList == <<JoinFields(<< <<"b">>, <<"1">>, <<"1">>, <<"1">> >>)>>

\* What the annotation archive may hold beside the classification lists.
OtherAnns ==
  { << << <<"trimaps">>, <<"a", ".", "png">> >>, << <<"mask-a">> >> >>,
    << << <<"trimaps">>, <<"b", ".", "png">> >>, << <<"mask-b">> >> >>,
    << << <<"trimaps">>, <<".", "_a", ".", "png">> >>, << <<"meta-a">> >> >>,
    << << <<"xmls">>, <<"trainval", ".", "txt">> >>, OtherList >> }

\* What the annotation archive may hold when the pipeline is built for split s:
\* any list of s, one list of each other split.
AnnEntriesOf(s) ==
  OtherAnns \cup {ClassificationFile(s, content) : content \in Lists(s)}
            \cup {ClassificationFile(o, OtherList) : o \in Splits \ {s}}

AnnEntriesTrainval == AnnEntriesOf(<<"trainval">>)
AnnEntriesTest == AnnEntriesOf(<<"test">>)

ImageEntries ==
  { << << <<"images">>, <<"a", ".", "jpg">> >>, << <<"image-a">> >> >>,
    << << <<"images">>, <<"b", ".", "jpg">> >>, << <<"image-b">> >> >>,
    << << <<"images">>, <<"b", ".", "JPG">> >>, << <<"upper-b">> >> >>,
    << << <<"images">>, <<".", "jpg">> >>, << <<"dot-jpg">> >> >> }

\* The entries an archive may yield next: those of pool whose path it has not
\* yielded yet.
Unread(pool, yielded) == {data \in pool : \A i \in 1..Len(yielded) : yielded[i][1] # data[1]}

\* ------------------------------------------------------------ state
VARIABLES
  split,      \* config.split
  decoder,    \* the decoder handed to _make_datapipe: <<>> (None) or <<f>>
  anns,       \* the entries the annotation archive has yielded, in its order
  annsEnd,    \* whether the annotation archive has ended
  images,     \* the entries the image archive has yielded, in its order
  imagesEnd,  \* whether the image archive has ended
  ai,         \* entries the Demultiplexer has read from anns
  routed,     \* for each entry read, the child it went to: <<0>>, <<1>>, <<>> (dropped)
  buf0,       \* the Demultiplexer's buffer of the classification child
  buf1,       \* the Demultiplexer's buffer of the segmentation child
  file,       \* the path of the classification list being parsed: <<>> or <<path>>
  lines,      \* its lines not parsed yet, each with its number in the file
  rec,        \* the record the first IterKeyZipper is matching: <<>> or <<record>>
  from,       \* where the last record was read: [file, line, text]
  segbuf,     \* the first IterKeyZipper's buffer of segmentation entries
  pair,       \* the item the second IterKeyZipper is matching: <<>> or <<(record, segmentation)>>
  ii,         \* entries the image Filter has read from images
  kept,       \* for each image entry read, whether the image Filter kept it
  imgbuf,     \* the second IterKeyZipper's buffer of image entries
  out,        \* the Samples handed to the consumer, in order
  trace,      \* for each Sample, the record and the entries it was assembled from
  status,     \* "running", "done" (drained) or "raised"
  exc,        \* the exception raised, "" when none
  builds,     \* how many times the pipeline has been built
  prev        \* what the earlier builds gave: [out, status, exc] each

config == <<split, decoder>>
archives == <<anns, annsEnd, images, imagesEnd>>
demux == <<ai, routed, buf0, buf1>>
parser == <<file, lines>>
join1 == <<rec, from, segbuf>>
join2 == <<pair, ii, kept, imgbuf>>
result == <<out, trace, status, exc>>
history == <<builds, prev>>

vars == <<config, archives, demux, parser, join1, join2, result, history>>

NoFrom == [file |-> <<>>, line |-> 0, text |-> <<>>]

\* The configuration and the two archives of resources(), nothing read yet,
\* and the pipeline as _make_datapipe returns it.
Init ==
  /\ \E c \in Configs : split = c[1] /\ decoder = c[2]
  /\ anns = <<>> /\ annsEnd = FALSE
  /\ images = <<>> /\ imagesEnd = FALSE
  /\ ai = 0 /\ routed = <<>> /\ buf0 = <<>> /\ buf1 = <<>>
  /\ file = <<>> /\ lines = <<>>
  /\ rec = <<>> /\ from = NoFrom /\ segbuf = <<>>
  /\ pair = <<>> /\ ii = 0 /\ kept = <<>> /\ imgbuf = <<>>
  /\ out = <<>> /\ trace = <<>>
  /\ status = "running" /\ exc = ""
  /\ builds = 1
  /\ prev = <<>>

\* ------------------------------------------------------------ the archives' reads
\* The entries the Demultiplexer may read next from the annotation archive:
\* the one it yielded to an earlier build at this place, or else any new one.
NextAnns ==
  IF ai < Len(anns) THEN {anns[ai + 1]}
  ELSE IF ~annsEnd /\ Len(anns) < MaxAnns
       THEN Unread(IF split = <<"trainval">> THEN AnnEntriesTrainval ELSE AnnEntriesTest, anns)
       ELSE {}

ReadAnn(data) ==
  /\ anns' = (IF ai < Len(anns) THEN anns ELSE Append(anns, data))
  /\ ai' = ai + 1
  /\ UNCHANGED annsEnd

\* The annotation archive has no next entry.
AnnsOver == ai = Len(anns) /\ annsEnd' = TRUE /\ UNCHANGED anns

\* The entries the image Filter may read next from the image archive.
NextImages ==
  IF ii < Len(images) THEN {images[ii + 1]}
  ELSE IF ~imagesEnd /\ Len(images) < MaxImages THEN Unread(ImageEntries, images)
       ELSE {}

ReadImageEntry(data) ==
  /\ images' = (IF ii < Len(images) THEN images ELSE Append(images, data))
  /\ ii' = ii + 1
  /\ UNCHANGED imagesEnd

\* The image archive has no next entry.
ImagesOver == ii = Len(images) /\ imagesEnd' = TRUE /\ UNCHANGED images

\* ------------------------------------------------------------ the stages' steps
Numbered(content) == [i \in 1..Len(content) |-> [line |-> i, text |-> content[i]]]

\* Filter(split_and_classification_dp, path_comparator(...)) and CSVDictParser
\* opening the entry it is handed.
OpenIfSplit(data) ==
  IF _filter_split(data, split)
  THEN file' = <<data[1]>> /\ lines' = Numbered(data[2])
  ELSE UNCHANGED parser

\* The classification stream is asked for a record and no list is open.
WantsClassificationEntry ==
  status = "running" /\ rec = <<>> /\ pair = <<>> /\ lines = <<>>

\* The Demultiplexer's classification child yields the head of its buffer.
TakeBufferedClassification ==
  /\ WantsClassificationEntry
  /\ buf0 # <<>>
  /\ buf0' = Tail(buf0)
  /\ OpenIfSplit(Head(buf0))
  /\ UNCHANGED <<config, archives, ai, routed, buf1, join1, join2, result, history>>

\* The Demultiplexer reads the next annotation entry for its classification
\* child: yields it, buffers it for the other child, or drops it (drop_none).
ReadForClassification ==
  /\ WantsClassificationEntry
  /\ buf0 = <<>>
  /\ \E data \in NextAnns :
       LET c == _classify_anns(data)
       IN /\ ReadAnn(data)
          /\ routed' = Append(routed, c)
          /\ IF c = <<0>> THEN OpenIfSplit(data) /\ UNCHANGED buf1
             ELSE IF c = <<1>> THEN buf1' = Append(buf1, data) /\ UNCHANGED parser
             ELSE UNCHANGED <<buf1, parser>>
  /\ UNCHANGED <<config, images, imagesEnd, buf0, join1, join2, result, history>>

\* The classification stream has ended: so have both joins and the Mapper.
Exhausted ==
  /\ WantsClassificationEntry
  /\ buf0 = <<>>
  /\ AnnsOver
  /\ status' = "done"
  /\ UNCHANGED <<config, images, imagesEnd, demux, parser, join1, join2, out, trace, exc,
                 history>>

\* CSVDictParser reads the next line of the open list; the record passes the
\* sharding and shuffling hints and becomes the first join's driving item.
ParseLine ==
  /\ status = "running" /\ rec = <<>> /\ pair = <<>> /\ lines # <<>>
  /\ \E i \in hint_shuffling(lines) :
       LET row == CSVDictParser(lines[i].text)
       IN /\ lines' = RemoveAt(lines, i)
          /\ from' = [file |-> file[1], line |-> lines[i].line, text |-> lines[i].text]
          /\ rec' = (IF row # <<>> /\ hint_sharding(row[1]) THEN row ELSE <<>>)
  /\ UNCHANGED <<config, archives, demux, file, segbuf, join2, result, history>>

\* Filter(segmentations_dp, _filter_segmentations) and the first join putting
\* the entry into its buffer.
BufferIfSegmentation(data) ==
  IF ~_filter_segmentations(data) THEN UNCHANGED <<segbuf, status, exc>>
  ELSE IF BufferHas(segbuf, ref_key_fn(data))
       THEN status' = "raised" /\ exc' = "ValueError" /\ UNCHANGED segbuf
       ELSE segbuf' = Append(segbuf, data) /\ UNCHANGED <<status, exc>>

\* The first join looks for the segmentation entry of its record.
WantsSegmentation ==
  status = "running" /\ rec # <<>> /\ pair = <<>> /\ ~BufferHas(segbuf, key_fn(rec[1]))

\* The Demultiplexer's segmentation child yields the head of its buffer.
TakeBufferedSegmentation ==
  /\ WantsSegmentation
  /\ buf1 # <<>>
  /\ buf1' = Tail(buf1)
  /\ BufferIfSegmentation(Head(buf1))
  /\ UNCHANGED <<config, archives, ai, routed, buf0, parser, rec, from, join2, out, trace,
                 history>>

\* The Demultiplexer reads the next annotation entry for its segmentation
\* child.
ReadForSegmentation ==
  /\ WantsSegmentation
  /\ buf1 = <<>>
  /\ \E data \in NextAnns :
       LET c == _classify_anns(data)
       IN /\ ReadAnn(data)
          /\ routed' = Append(routed, c)
          /\ IF c = <<1>> THEN BufferIfSegmentation(data) /\ UNCHANGED buf0
             ELSE IF c = <<0>>
                  THEN buf0' = Append(buf0, data) /\ UNCHANGED <<segbuf, status, exc>>
                  ELSE UNCHANGED <<buf0, segbuf, status, exc>>
  /\ UNCHANGED <<config, images, imagesEnd, buf1, parser, rec, from, join2, out, trace,
                 history>>

\* The segmentation stream ended without the record's key: IterKeyZipper
\* raises BufferError.
UnmatchedRecord ==
  /\ WantsSegmentation
  /\ buf1 = <<>>
  /\ AnnsOver
  /\ status' = "raised" /\ exc' = "BufferError"
  /\ UNCHANGED <<config, images, imagesEnd, demux, parser, join1, join2, out, trace,
                 history>>

\* The first join yields (record, segmentation entry).
MatchSegmentation ==
  /\ status = "running" /\ rec # <<>> /\ pair = <<>>
  /\ BufferHas(segbuf, key_fn(rec[1]))
  /\ pair' = << <<rec[1], BufferGet(segbuf, key_fn(rec[1]))>> >>
  /\ segbuf' = BufferPop(segbuf, key_fn(rec[1]))
  /\ rec' = <<>>
  /\ UNCHANGED <<config, archives, demux, parser, from, ii, kept, imgbuf, result, history>>

\* The second join looks for the image entry of its item.
WantsImage ==
  status = "running" /\ pair # <<>> /\ ~BufferHas(imgbuf, key_fn(pair[1][1]))

\* Filter(images_dp, _filter_images) reads the next image entry and the second
\* join puts it into its buffer.
ReadImage ==
  /\ WantsImage
  /\ \E data \in NextImages :
       /\ ReadImageEntry(data)
       /\ kept' = Append(kept, _filter_images(data))
       /\ IF ~_filter_images(data) THEN UNCHANGED <<imgbuf, status, exc>>
          ELSE IF BufferHas(imgbuf, ref_key_fn(data))
               THEN status' = "raised" /\ exc' = "ValueError" /\ UNCHANGED imgbuf
               ELSE imgbuf' = Append(imgbuf, data) /\ UNCHANGED <<status, exc>>
  /\ UNCHANGED <<config, anns, annsEnd, demux, parser, join1, pair, out, trace, history>>

\* The image stream ended without the item's key: IterKeyZipper raises
\* BufferError.
UnmatchedPair ==
  /\ WantsImage
  /\ ImagesOver
  /\ status' = "raised" /\ exc' = "BufferError"
  /\ UNCHANGED <<config, anns, annsEnd, demux, parser, join1, join2, out, trace, history>>

\* The second join yields ((record, segmentation), image) and the Mapper
\* applies _collate_and_decode_sample to it.
EmitSample ==
  /\ status = "running" /\ pair # <<>>
  /\ BufferHas(imgbuf, key_fn(pair[1][1]))
  /\ LET image_data == BufferGet(imgbuf, key_fn(pair[1][1]))
         sample == _collate_and_decode_sample(<<pair[1], image_data>>, decoder)
     IN /\ imgbuf' = BufferPop(imgbuf, key_fn(pair[1][1]))
        /\ pair' = <<>>
        /\ IF sample.err # ""
           THEN status' = "raised" /\ exc' = sample.err /\ UNCHANGED <<out, trace>>
           ELSE /\ out' = Append(out, sample.val[1])
                /\ trace' = Append(trace, [from |-> from, record |-> pair[1][1],
                                           segmentation |-> pair[1][2], image |-> image_data])
                /\ UNCHANGED <<status, exc>>
  /\ UNCHANGED <<config, archives, demux, parser, join1, ii, kept, history>>

\* _make_datapipe is called again on the same archives, split and decoder.
Rebuild ==
  /\ status # "running"
  /\ builds < MaxBuilds
  /\ builds' = builds + 1
  /\ prev' = Append(prev, [out |-> out, status |-> status, exc |-> exc])
  /\ ai' = 0 /\ routed' = <<>> /\ buf0' = <<>> /\ buf1' = <<>>
  /\ file' = <<>> /\ lines' = <<>>
  /\ rec' = <<>> /\ from' = NoFrom /\ segbuf' = <<>>
  /\ pair' = <<>> /\ ii' = 0 /\ kept' = <<>> /\ imgbuf' = <<>>
  /\ out' = <<>> /\ trace' = <<>>
  /\ status' = "running" /\ exc' = ""
  /\ UNCHANGED <<config, archives>>

Next ==
  \/ TakeBufferedClassification
  \/ ReadForClassification
  \/ Exhausted
  \/ ParseLine
  \/ TakeBufferedSegmentation
  \/ ReadForSegmentation
  \/ UnmatchedRecord
  \/ MatchSegmentation
  \/ ReadImage
  \/ UnmatchedPair
  \/ EmitSample
  \/ Rebuild

Spec == Init /\ [][Next]_vars

\* ------------------------------------------------------------ what the archives hold
\* The places in anns of the split's classification lists.
SplitLists ==
  {i \in 1..Len(anns) : /\ PathParentName(anns[i][1]) = <<"annotations">>
                        /\ PathName(anns[i][1]) = split \o <<".", "txt">>}

\* The lines of the split's classification lists, each with its place.
SplitLines ==
  UNION {{[file |-> anns[i][1], line |-> n, text |-> anns[i][2][n]] : n \in 1..Len(anns[i][2])}
         : i \in SplitLists}

ImageIdOf(text) == SplitFields(text)[1]

\* The image ids of the split's classification lists.
ListIds == {ImageIdOf(l.text) : l \in SplitLines}

\* The entries of the segmentation stream and of the image stream.
SegmentationStream ==
  {data \in Range(anns) : /\ PathParentName(data[1]) = <<"trimaps">>
                          /\ ~StartsWithDot(PathName(data[1]))}
ImageStream == {data \in Range(images) : PathSuffix(data[1]) = <<".", "jpg">>}

SegmentationIds == {PathStem(data[1]) : data \in SegmentationStream}
ImageIds == {PathStem(data[1]) : data \in ImageStream}

\* The ids present in all three streams.
JoinedIds == (ListIds \cap SegmentationIds) \cap ImageIds

\* Join keys are unique within each stream.
UniqueKeys ==
  /\ \A l, m \in SplitLines : ImageIdOf(l.text) = ImageIdOf(m.text) => l = m
  /\ \A d, e \in SegmentationStream : PathStem(d[1]) = PathStem(e[1]) => d = e
  /\ \A d, e \in ImageStream : PathStem(d[1]) = PathStem(e[1]) => d = e

\* The Samples emitted for an image id: its record with an entry of the
\* segmentation stream and an entry of the image stream.
SamplesFor(id) ==
  {k \in 1..Len(trace) : /\ trace[k].record.image_id = <<id>>
                         /\ trace[k].segmentation \in SegmentationStream
                         /\ trace[k].image \in ImageStream}

\* The place in anns of the entry with this path.
PlaceOf(path) == CHOOSE i \in 1..Len(anns) : anns[i][1] = path

\* ------------------------------------------------------------ C1
\* C1: every Sample emitted so far was assembled from one record read from a
\* line of the file named "<split>.txt", one segmentation entry and one image
\* entry whose path stems all equal the record's image_id; none lacks a part.
C1_SamplesAreInnerJoins ==
  /\ Len(trace) = Len(out)
  /\ \A k \in 1..Len(trace) :
       LET t == trace[k]
       IN /\ PathName(t.from.file) = split \o <<".", "txt">>
          /\ \E l \in SplitLines : l = t.from
          /\ t.record.image_id = <<ImageIdOf(t.from.text)>>
          /\ t.segmentation \in Range(anns)
          /\ t.image \in Range(images)
          /\ PathStem(t.segmentation[1]) = ImageIdOf(t.from.text)
          /\ PathStem(t.image[1]) = ImageIdOf(t.from.text)
          /\ out[k].segmentation_path = t.segmentation[1]
          /\ out[k].image_path = t.image[1]

\* A Sample was emitted while the archive also held the other split's list.
C1_Witness ==
  /\ Len(out) >= 1
  /\ \E i \in 1..ai : /\ PathParentName(anns[i][1]) = <<"annotations">>
                      /\ PathName(anns[i][1]) # split \o <<".", "txt">>

C3_NoErrorForMissingMatch ==
  status = "raised" =>
    /\ ImageIdOf(from.text) \in SegmentationIds
    /\ ImageIdOf(from.text) \in ImageIds

\* ------------------------------------------------------------ C4
\* C4: no Sample is emitted for a record whose label is not in 1..N.
C4_NoSampleOutsideTable ==
  \A k \in 1..Len(trace) :
    LET label == IntOf(trace[k].record.label[1])
    IN 1 <= label /\ label <= Len(Categories)

\* ------------------------------------------------------------ C5
\* C5: no Sample is emitted for a line that does not have exactly four
\* space-separated fields.
C5_NoSampleFromMalformedLine ==
  \A k \in 1..Len(trace) : Len(SplitFields(trace[k].from.text)) = 4

\* ------------------------------------------------------------ C6
\* C6: a Sample of a record with label L in 1..N has label.index = L - 1,
\* label.category = the table's entry at L - 1, and species "cat" when the
\* species field is "1", "dog" otherwise.
C6_DecodedLabelAndSpecies ==
  \A k \in 1..Len(trace) :
    LET r == trace[k].record
        label == IntOf(r.label[1])
    IN (1 <= label /\ label <= Len(Categories)) =>
         /\ out[k].label.index = label - 1
         /\ out[k].label.category = Categories[label]
         /\ out[k].species = (IF r.species = << <<"1">> >> THEN "cat" ELSE "dog")

\* A cat and a dog whose species field is neither "1" nor "2" were emitted.
C6_Witness ==
  /\ \E k \in 1..Len(out) : out[k].species = "cat" /\ out[k].label.index = 0
  /\ \E k \in 1..Len(out) :
       /\ out[k].species = "dog" /\ out[k].label.index = 1
       /\ trace[k].record.species = << <<"3">> >>

\* ------------------------------------------------------------ C7
InStreams(data) ==
  \/ data \in Range(buf0) \cup Range(buf1) \cup Range(segbuf)
  \/ file = <<data[1]>>
  \/ \E k \in 1..Len(trace) : trace[k].segmentation = data \/ trace[k].from.file = data[1]
  \/ pair # <<>> /\ pair[1][2] = data

\* C7: an annotation entry read goes to the classification child (0) when its
\* parent directory is "annotations", to the segmentation child (1) when it is
\* "trimaps", and is dropped otherwise, reaching neither stream; only
\* "annotations" entries are in the classification child's buffer and only
\* "trimaps" entries in the segmentation side's buffers.
C7_EntriesRoutedByParent ==
  /\ Len(routed) = ai
  /\ \A i \in 1..ai :
       LET parent == PathParentName(anns[i][1])
       IN /\ parent = <<"annotations">> => routed[i] = <<0>>
          /\ parent = <<"trimaps">> => routed[i] = <<1>>
          /\ parent \notin {<<"annotations">>, <<"trimaps">>} =>
               routed[i] = <<>> /\ ~InStreams(anns[i])
  /\ \A data \in Range(buf0) : PathParentName(data[1]) = <<"annotations">>
  /\ \A data \in Range(buf1) \cup Range(segbuf) : PathParentName(data[1]) = <<"trimaps">>

\* An entry of another directory was dropped and draining went on to a Sample.
C7_Witness ==
  /\ \E i \in 1..ai : PathParentName(anns[i][1]) = <<"xmls">> /\ routed[i] = <<>>
  /\ status = "done" /\ Len(out) >= 1

\* ------------------------------------------------------------ C8
\* C8 as stated: the image filter keeps an entry if and only if its path ends
\* in ".jpg".
C8_Original ==
  \A i \in 1..ii : kept[i] <=> EndsWith(PathName(images[i][1]), <<".", "jpg">>)

\* C8, amended: the image filter keeps an entry if and only if its file name
\* ends in ".jpg" and has at least one character before that; no Sample has an
\* image_path that does not end in ".jpg", and an entry the filter did not
\* keep is in no join buffer and in no Sample.
C8_JpgOnly ==
  /\ Len(kept) = ii
  /\ \A i \in 1..ii :
       LET name == PathName(images[i][1])
       IN /\ kept[i] <=> (EndsWith(name, <<".", "jpg">>) /\ Len(name) > 2)
          /\ ~kept[i] => /\ images[i] \notin Range(imgbuf)
                         /\ \A k \in 1..Len(trace) : trace[k].image # images[i]
  /\ \A k \in 1..Len(out) : EndsWith(PathName(out[k].image_path), <<".", "jpg">>)

\* "b.JPG" was read and not kept, and the Sample of b took "b.jpg".
C8_Witness ==
  /\ \E i \in 1..ii : ~kept[i] /\ PathStem(images[i][1]) = <<"b">>
  /\ \E k \in 1..Len(out) : trace[k].record.image_id = << <<"b">> >>

C10_SamplesInListOrder ==
  \A j, k \in 1..Len(trace) :
    j < k =>
      \/ PlaceOf(trace[j].from.file) < PlaceOf(trace[k].from.file)
      \/ /\ trace[j].from.file = trace[k].from.file
         /\ trace[j].from.line < trace[k].from.line

\* Two Samples in list order although their segmentation entries and their
\* image entries both arrived in the opposite order.
C10_Witness ==
  /\ Len(trace) = 2
  /\ PlaceOf(trace[2].segmentation[1]) < PlaceOf(trace[1].segmentation[1])
  /\ trace[1].image = images[2] /\ trace[2].image = images[1]
====
